---- MODULE Spec2Model ----
(***************************************************************************)
(* Robustness simulation of project/emails/robustness.py: the graph        *)
(* operations it uses, the two removal strategies, the two metrics, the    *)
(* attack and failure drivers, and the history files.                      *)
(*                                                                         *)
(* A graph is a record [nodes, edges]: nodes is the sequence of node ids   *)
(* in the graph's enumeration (insertion) order, edges a set of two-element*)
(* sets of node ids.  A Python float that is the quotient of two small     *)
(* integers is the reduced fraction <<num, den>>: IEEE division is         *)
(* correctly rounded, so two such floats are equal exactly when the        *)
(* fractions are.                                                          *)
(***************************************************************************)
EXTENDS Integers, Sequences, FiniteSets, TLC

VARIABLES
    heap,                \* object store: reference -> graph value
    graph,               \* the local variable `graph` of the running driver (a reference)
    orig,                \* the value of src_graph when the program was entered
    pc,                  \* position of the program
    call,                \* the function that was called
    nodes_to_remove,     \* parameters of the running driver
    measure_frequency,
    number_of_runs,
    iteration,           \* loop variable of the removal loop
    run,                 \* loop variable of the failure-mode outer loop
    diameters_history,   \* the three histories of the running driver
    path_len_history,
    ga_fraction_history,
    ga_on_run,           \* failure mode: the current run's series
    error,               \* the exception that ended the program, or NoError
    dumped,              \* the arguments of the dump_history calls made so far
    attack_file,         \* the two history files: sequences of lines, a line a
    fail_file,           \*   sequence of tokens; NoFile before it is written
    plotted,             \* what plot_robustness read back
    ret                  \* result of the last direct call of a metric

vars == <<heap, graph, orig, pc, call, nodes_to_remove, measure_frequency,
          number_of_runs, iteration, run, diameters_history, path_len_history,
          ga_fraction_history, ga_on_run, error, dumped, attack_file,
          fail_file, plotted, ret>>

(***************************************************************************)
(* Bounds.                                                                 *)
(***************************************************************************)
MaxNodes == 3
MaxFreq == 2
MaxRuns == 2
MaxPart == 3
MaxSeries == 2
MaxRemove == MaxNodes + 2

(***************************************************************************)
(* Arithmetic.                                                             *)
(***************************************************************************)
RECURSIVE GCD(_, _)
GCD(a, b) == IF b = 0 THEN a ELSE GCD(b, a % b)

\* The float n / d, for integers n >= 0 and d > 0.
Frac(n, d) == LET g == GCD(n, d) IN <<n \div g, d \div g>>

\* The float a / b of two floats, b nonzero.
FracDiv(a, b) == Frac(a[1] * b[2], a[2] * b[1])

Zero == Frac(0, 1)

RECURSIVE SumOver(_, _)
SumOver(f, S) ==
    IF S = {} THEN 0
    ELSE LET x == CHOOSE y \in S : TRUE IN f[x] + SumOver(f, S \ {x})

MaxOf(S) == CHOOSE m \in S : \A x \in S : x <= m

(***************************************************************************)
(* Graph operations (networkx.Graph as the source uses it).                *)
(***************************************************************************)
NodeSet(g) == {g.nodes[i] : i \in 1..Len(g.nodes)}

order(g) == Len(g.nodes)

Neighbors(g, n) == {m \in NodeSet(g) : {n, m} \in g.edges}

degree(g, n) == Cardinality({e \in g.edges : n \in e})

\* Graph.remove_node: the node leaves the enumeration, the others keep their
\* order, and every edge at the node goes.
remove_node(g, n) ==
    [nodes |-> SelectSeq(g.nodes, LAMBDA m : m # n),
     edges |-> {e \in g.edges : n \notin e}]

\* Graph.subgraph(c).copy(): the nodes of c in the graph's order, the edges inside c.
subgraph(g, c) ==
    [nodes |-> SelectSeq(g.nodes, LAMBDA m : m \in c),
     edges |-> {e \in g.edges : e \subseteq c}]

\* Graph.size(): the number of edges.
size(g) == Cardinality(g.edges)

(***************************************************************************)
(* nx.single_source_shortest_path_length: breadth-first levels from n; only *)
(* the nodes reached get an entry.                                         *)
(***************************************************************************)
RECURSIVE bfs_levels(_, _, _, _)
bfs_levels(g, thislevel, seen, level) ==
    LET new == thislevel \ DOMAIN seen
    IN  IF new = {} THEN seen
        ELSE bfs_levels(g, UNION {Neighbors(g, v) : v \in new},
                        seen @@ [v \in new |-> level], level + 1)

\* Mutant: the search stops after the first level.
single_source_first_level(g, n) ==
    [v \in {n} \cup Neighbors(g, n) |-> IF v = n THEN 0 ELSE 1]

single_source_shortest_path_length(g, n) == bfs_levels(g, {n}, << >>, 0)

(***************************************************************************)
(* diameter_and_avg_path_length.                                           *)
(***************************************************************************)
\* The loop over the nodes: acc is [max_path_length, total] so far, i the
\* index of the next source.
RECURSIVE path_length_loop(_, _, _)
path_length_loop(g, i, acc) ==
    IF i > Len(g.nodes) THEN acc
    ELSE LET path_length == single_source_shortest_path_length(g, g.nodes[i])
             longest == MaxOf({path_length[v] : v \in DOMAIN path_length})
         IN  path_length_loop(g, i + 1,
                 [max_path_length |-> IF longest > acc.max_path_length
                                      THEN longest ELSE acc.max_path_length,
                  total |-> acc.total + SumOver(path_length, DOMAIN path_length)])

\* Mutant: each unordered pair counted once.
avg_path_length_unordered(total, n) ==
    IF n * (n - 1) = 0 THEN Zero ELSE Frac(total \div 2, n * (n - 1))

\* total / (order * (order - 1)), 0.0 when that raises ZeroDivisionError.
avg_path_length(total, n) ==
    IF n * (n - 1) = 0 THEN Zero ELSE Frac(total, n * (n - 1))

diameter_and_avg_path_length(g) ==
    LET acc == path_length_loop(g, 1, [max_path_length |-> 0, total |-> 0])
    IN  [diameter |-> acc.max_path_length,
         avg |-> avg_path_length(acc.total, order(g))]

(***************************************************************************)
(* giant_component_fraction.                                               *)
(***************************************************************************)
\* nx.connected_component_subgraphs: for each node in enumeration order not
\* yet seen, the subgraph of the nodes reachable from it.
RECURSIVE connected_component_subgraphs(_, _, _)
connected_component_subgraphs(g, i, seen) ==
    IF i > Len(g.nodes) THEN << >>
    ELSE IF g.nodes[i] \in seen
         THEN connected_component_subgraphs(g, i + 1, seen)
         ELSE LET c == DOMAIN single_source_shortest_path_length(g, g.nodes[i])
              IN  <<subgraph(g, c)>>
                  \o connected_component_subgraphs(g, i + 1, seen \cup c)

\* Mutant: key=size, the number of edges of a component.
component_key_size(c) == Cardinality(c.edges)

\* key=len: the number of nodes of a component.
component_key(c) == Len(c.nodes)

\* sorted(..., key=len, reverse=True): a stable sort, larger keys first;
\* components with equal keys keep their order.
RECURSIVE sorted_reverse(_)
sorted_reverse(s) ==
    IF s = << >> THEN << >>
    ELSE LET rest == sorted_reverse(Tail(s))
             x == Head(s)
             before == SelectSeq(rest, LAMBDA c : component_key(c) > component_key(x))
             after == SelectSeq(rest, LAMBDA c : component_key(c) <= component_key(x))
         IN  before \o <<x>> \o after

NoError == "none"

\* An exception of the given type, raised at the given place.
Raised(type, at) == [type |-> type, at |-> at]

NotRaised == Raised(NoError, "")

giant_component_fraction(g) ==
    LET components == sorted_reverse(connected_component_subgraphs(g, 1, {}))
    IN  IF components = << >>
        THEN [err |-> "IndexError", val |-> Zero]            \* components[0]
        ELSE [err |-> NoError,
              val |-> Frac(size(components[1]), order(g))]

(***************************************************************************)
(* Inputs: the graphs on nodes 1..n, enumerated in ascending or descending *)
(* order of id (the order in which an edge list first names them).         *)
(***************************************************************************)
Pairs(n) == {{u, v} : u, v \in 1..n} \ {{u} : u \in 1..n}

Ascending(n) == [i \in 1..n |-> i]

Descending(n) == [i \in 1..n |-> n + 1 - i]

GraphsOn(n) ==
    {[nodes |-> o, edges |-> E] :
        o \in {Ascending(n), Descending(n)}, E \in SUBSET Pairs(n)}

GraphsUpTo(maxNodes) == UNION {GraphsOn(n) : n \in 0..maxNodes}

\* g1 and, after it in the enumeration, g2 on node ids above those of g1.
DisjointUnion(g1, g2) ==
    LET k == Len(g1.nodes)
    IN  [nodes |-> g1.nodes \o [i \in 1..Len(g2.nodes) |-> g2.nodes[i] + k],
         edges |-> g1.edges \cup {{n + k : n \in e} : e \in g2.edges}]

\* The graphs handed to the drivers.
DriverGraphs == GraphsUpTo(MaxNodes)

\* The graphs handed to the metrics: two parts side by side, so that several
\* components of equal node count and different edge counts occur.
MetricGraphs ==
    {DisjointUnion(g1, g2) : g1 \in GraphsUpTo(MaxPart), g2 \in GraphsUpTo(MaxPart)}

(***************************************************************************)
(* The object store.  src_graph is the object at SrcRef; nx.Graph(g) makes *)
(* a new object; an object no variable refers to is reclaimed.             *)
(***************************************************************************)
Refs == 0..2

SrcRef == 0

NoFile == [exists |-> FALSE, lines |-> << >>]

NoSeries == [diameters |-> << >>, paths |-> << >>, ga_fractions |-> << >>]

\* Nothing returned yet; a metric fills in the fields it returns.
NoRet == [fn |-> "none", err |-> NoError, fraction |-> Zero, diameter |-> 0, avg |-> Zero]

\* Everything but the graph, as it is before any call.
Idle ==
    /\ graph = SrcRef
    /\ pc = "idle"
    /\ call = "none"
    /\ nodes_to_remove = 0
    /\ measure_frequency = 1
    /\ number_of_runs = 0
    /\ iteration = 0
    /\ run = 0
    /\ diameters_history = << >>
    /\ path_len_history = << >>
    /\ ga_fraction_history = << >>
    /\ ga_on_run = << >>
    /\ error = NotRaised
    /\ dumped = [attack |-> NoSeries, fail |-> NoSeries]
    /\ attack_file = NoFile
    /\ fail_file = NoFile
    /\ plotted = [attack |-> << >>, fail |-> << >>]
    /\ ret = NoRet

(***************************************************************************)
(* SpecFn: the two metrics called directly on a graph.                     *)
(***************************************************************************)
InitFn ==
    /\ orig \in MetricGraphs
    /\ heap = [r \in {SrcRef} |-> orig]
    /\ Idle

FnGiant ==
    /\ pc = "idle"
    /\ LET r == giant_component_fraction(heap[graph])
       IN  ret' = [NoRet EXCEPT !.fn = "giant_component_fraction",
                                !.err = r.err, !.fraction = r.val]
    /\ UNCHANGED <<heap, graph, orig, pc, call, nodes_to_remove, measure_frequency,
                   number_of_runs, iteration, run, diameters_history, path_len_history,
                   ga_fraction_history, ga_on_run, error, dumped, attack_file,
                   fail_file, plotted>>

FnDiameter ==
    /\ pc = "idle"
    /\ LET r == diameter_and_avg_path_length(heap[graph])
       IN  ret' = [NoRet EXCEPT !.fn = "diameter_and_avg_path_length",
                                !.diameter = r.diameter, !.avg = r.avg]
    /\ UNCHANGED <<heap, graph, orig, pc, call, nodes_to_remove, measure_frequency,
                   number_of_runs, iteration, run, diameters_history, path_len_history,
                   ga_fraction_history, ga_on_run, error, dumped, attack_file,
                   fail_file, plotted>>

NextFn == FnGiant \/ FnDiameter

SpecFn == InitFn /\ [][NextFn]_vars

(***************************************************************************)
(* The removal strategies.  Each takes the object store and the reference  *)
(* it is given and returns the store and the reference of its result.      *)
(***************************************************************************)
\* Mutant: no copy, the same object.
nx_Graph_alias(h, r) == [heap |-> h, ref |-> r]

\* nx.Graph(src_graph): a new object holding a copy of the graph.
nx_Graph(h, r) ==
    LET new == CHOOSE x \in Refs : x \notin DOMAIN h
    IN  [heap |-> h @@ [x \in {new} |-> h[r]], ref |-> new]

\* fail, with n the node random.choice drew.
fail(h, r, n) ==
    LET c == nx_Graph(h, r)
    IN  [heap |-> [c.heap EXCEPT ![c.ref] = remove_node(@, n)], ref |-> c.ref]

\* Mutant: the node of lowest id among those of maximum degree.
max_keys_lowest_id(g) ==
    LET max_degree == MaxOf({degree(g, n) : n \in NodeSet(g)})
        max_keys == {k \in NodeSet(g) : degree(g, k) = max_degree}
    IN  CHOOSE k \in max_keys : \A m \in max_keys : k <= m

\* max_keys[0]: the first node of the enumeration whose degree is the maximum.
max_keys_first(g) ==
    LET max_degree == MaxOf({degree(g, n) : n \in NodeSet(g)})
        max_keys == SelectSeq(g.nodes, LAMBDA k : degree(g, k) = max_degree)
    IN  max_keys[1]

attack_degree(h, r) ==
    LET c == nx_Graph(h, r)
        g == c.heap[c.ref]
    IN  IF order(g) = 0
        THEN [err |-> "ValueError", heap |-> h, ref |-> r]    \* max() of nothing
        ELSE [err |-> NoError,
              heap |-> [c.heap EXCEPT ![c.ref] = remove_node(@, max_keys_first(g))],
              ref |-> c.ref]

\* What is left of the store when only the references in live are held.
Reclaim(h, live) == [x \in DOMAIN h \cap live |-> h[x]]

(***************************************************************************)
(* The history files.  A token is the text of a number, kept as the        *)
(* fraction it denotes; str() of an int and of a float both give one, and  *)
(* float() of a token gives the float.                                     *)
(***************************************************************************)
str_int(k) == <<k, 1>>

str_float(f) == f

float(token) == Frac(token[1], token[2])

\* common.join_values on a list of ints and on a list of floats.
join_ints(values) == [i \in 1..Len(values) |-> str_int(values[i])]

join_floats(values) == [i \in 1..Len(values) |-> str_float(values[i])]

RECURSIVE fail_lines(_, _)
fail_lines(ga_fractions, r) ==
    IF r > Len(ga_fractions) THEN << >>
    ELSE <<<<str_int(r - 1)>>, join_floats(ga_fractions[r])>>
         \o fail_lines(ga_fractions, r + 1)

\* dump_history: the lines written, by mode.  In failure mode one pair of
\* lines per entry of diameters.
dump_history(diameters, paths, ga_fractions, fail_mode) ==
    IF ~fail_mode
    THEN <<join_ints(diameters), join_floats(paths), join_floats(ga_fractions)>>
    ELSE fail_lines(SubSeq(ga_fractions, 1, Len(diameters)), 1)

(***************************************************************************)
(* One sampled measurement on graph value g, appended to the histories     *)
(* d, p and f in the order the source appends; giant_component_fraction    *)
(* may raise after the first two were appended.                            *)
(***************************************************************************)
measure_attack(g, d, p, f) ==
    LET m == diameter_and_avg_path_length(g)
        ga == giant_component_fraction(g)
    IN  [err |-> ga.err,
         diameters |-> Append(d, m.diameter),
         paths |-> Append(p, m.avg),
         ga_fractions |-> IF ga.err = NoError THEN Append(f, ga.val) ELSE f]

\* Mutant: the measurement at the end of each period, not at its start.
sampled_at_end(i, frequency) == (i + 1) % frequency = 0

\* iteration % measure_frequency == 0
sampled(i, frequency) == i % frequency = 0

(***************************************************************************)
(* robustness_by_attack.                                                   *)
(***************************************************************************)
CallAttack(n, frequency) ==
    /\ pc = "idle"
    /\ call' = "robustness_by_attack"
    /\ nodes_to_remove' = n
    /\ measure_frequency' = frequency
    /\ graph' = SrcRef
    /\ iteration' = 0
    /\ diameters_history' = << >>
    /\ path_len_history' = << >>
    /\ ga_fraction_history' = << >>
    /\ pc' = IF n > 0 THEN "attack_loop" ELSE "attack_dump"
    /\ UNCHANGED <<heap, orig, number_of_runs, run, ga_on_run, error, dumped,
                   attack_file, fail_file, plotted, ret>>

\* One iteration of the loop: the removal, then the measurement if sampled.
AttackIteration ==
    /\ pc = "attack_loop"
    /\ iteration < nodes_to_remove
    /\ LET a == attack_degree(heap, graph)
           h == Reclaim(a.heap, {SrcRef, a.ref})
           m == measure_attack(h[a.ref], diameters_history, path_len_history,
                               ga_fraction_history)
       IN  IF a.err # NoError
           THEN /\ error' = Raised(a.err, "attack_degree")
                /\ pc' = "raised"
                /\ UNCHANGED <<heap, graph, iteration, diameters_history,
                               path_len_history, ga_fraction_history>>
           ELSE /\ heap' = h
                /\ graph' = a.ref
                /\ IF sampled(iteration, measure_frequency)
                   THEN /\ diameters_history' = m.diameters
                        /\ path_len_history' = m.paths
                        /\ ga_fraction_history' = m.ga_fractions
                        /\ IF m.err # NoError
                           THEN /\ error' = Raised(m.err, "giant_component_fraction")
                                /\ pc' = "raised"
                                /\ UNCHANGED iteration
                           ELSE /\ iteration' = iteration + 1
                                /\ pc' = IF iteration + 1 < nodes_to_remove
                                         THEN "attack_loop" ELSE "attack_dump"
                                /\ UNCHANGED error
                   ELSE /\ iteration' = iteration + 1
                        /\ pc' = IF iteration + 1 < nodes_to_remove
                                 THEN "attack_loop" ELSE "attack_dump"
                        /\ UNCHANGED <<error, diameters_history, path_len_history,
                                       ga_fraction_history>>
    /\ UNCHANGED <<orig, call, nodes_to_remove, measure_frequency, number_of_runs,
                   run, ga_on_run, dumped, attack_file, fail_file, plotted, ret>>

AttackDump ==
    /\ pc = "attack_dump"
    /\ attack_file' = [exists |-> TRUE,
                       lines |-> dump_history(diameters_history, path_len_history,
                                              ga_fraction_history, FALSE)]
    /\ dumped' = [dumped EXCEPT !.attack =
                     [diameters |-> diameters_history, paths |-> path_len_history,
                      ga_fractions |-> ga_fraction_history]]
    /\ pc' = "returned"
    /\ UNCHANGED <<heap, graph, orig, call, nodes_to_remove, measure_frequency,
                   number_of_runs, iteration, run, diameters_history,
                   path_len_history, ga_fraction_history, ga_on_run, error,
                   fail_file, plotted, ret>>

(***************************************************************************)
(* robustness_by_fail.                                                     *)
(***************************************************************************)
CallFail(runs, n, frequency) ==
    /\ pc = "idle"
    /\ call' = "robustness_by_fail"
    /\ number_of_runs' = runs
    /\ nodes_to_remove' = n
    /\ measure_frequency' = frequency
    /\ run' = 0
    /\ graph' = SrcRef
    /\ iteration' = 0
    /\ diameters_history' = << >>
    /\ path_len_history' = << >>
    /\ ga_fraction_history' = << >>
    /\ ga_on_run' = << >>
    /\ pc' = IF runs > 0 THEN "fail_loop" ELSE "fail_dump"
    /\ UNCHANGED <<heap, orig, error, dumped, attack_file, fail_file, plotted, ret>>

\* One iteration of the inner loop: the removal of the node random.choice
\* draws, then the giant-component measurement if sampled.
FailIteration ==
    /\ pc = "fail_loop"
    /\ iteration < nodes_to_remove
    /\ IF order(heap[graph]) = 0
       THEN /\ error' = Raised("IndexError", "fail")         \* random.choice([])
            /\ pc' = "raised"
            /\ UNCHANGED <<heap, graph, iteration, ga_on_run>>
       ELSE \E n \in NodeSet(heap[graph]) :
            LET f == fail(heap, graph, n)
                h == Reclaim(f.heap, {SrcRef, f.ref})
                ga == giant_component_fraction(h[f.ref])
            IN  /\ heap' = h
                /\ graph' = f.ref
                /\ IF sampled(iteration, measure_frequency) /\ ga.err # NoError
                   THEN /\ error' = Raised(ga.err, "giant_component_fraction")
                        /\ pc' = "raised"
                        /\ UNCHANGED <<iteration, ga_on_run>>
                   ELSE /\ ga_on_run' = IF sampled(iteration, measure_frequency)
                                        THEN Append(ga_on_run, ga.val) ELSE ga_on_run
                        /\ iteration' = iteration + 1
                        /\ UNCHANGED <<error, pc>>
    /\ UNCHANGED <<orig, call, nodes_to_remove, measure_frequency, number_of_runs,
                   run, diameters_history, path_len_history, ga_fraction_history,
                   dumped, attack_file, fail_file, plotted, ret>>

\* The end of a run: its series join the histories, and the next run starts
\* from src_graph.
FailRunEnd ==
    /\ pc = "fail_loop"
    /\ iteration >= nodes_to_remove
    /\ diameters_history' = Append(diameters_history, << >>)
    /\ path_len_history' = Append(path_len_history, << >>)
    /\ ga_fraction_history' = Append(ga_fraction_history, ga_on_run)
    /\ run' = run + 1
    /\ IF run + 1 < number_of_runs
       THEN /\ graph' = SrcRef
            /\ heap' = Reclaim(heap, {SrcRef})
            /\ iteration' = 0
            /\ ga_on_run' = << >>
            /\ UNCHANGED pc
       ELSE /\ pc' = "fail_dump"
            /\ UNCHANGED <<heap, graph, iteration, ga_on_run>>
    /\ UNCHANGED <<orig, call, nodes_to_remove, measure_frequency, number_of_runs,
                   error, dumped, attack_file, fail_file, plotted, ret>>

FailDump ==
    /\ pc = "fail_dump"
    /\ fail_file' = [exists |-> TRUE,
                     lines |-> dump_history(diameters_history, path_len_history,
                                            ga_fraction_history, TRUE)]
    /\ dumped' = [dumped EXCEPT !.fail =
                     [diameters |-> diameters_history, paths |-> path_len_history,
                      ga_fractions |-> ga_fraction_history]]
    /\ pc' = "returned"
    /\ UNCHANGED <<heap, graph, orig, call, nodes_to_remove, measure_frequency,
                   number_of_runs, iteration, run, diameters_history,
                   path_len_history, ga_fraction_history, ga_on_run, error,
                   attack_file, plotted, ret>>

(***************************************************************************)
(* Spec: one driver called on a graph.                                     *)
(***************************************************************************)
Init ==
    /\ orig \in DriverGraphs
    /\ heap = [r \in {SrcRef} |-> orig]
    /\ Idle

Next ==
    \/ \E n \in 0..MaxRemove, frequency \in 1..MaxFreq : CallAttack(n, frequency)
    \/ AttackIteration
    \/ AttackDump
    \/ \E runs \in 0..MaxRuns, n \in 0..MaxRemove, frequency \in 1..MaxFreq :
           CallFail(runs, n, frequency)
    \/ FailIteration
    \/ FailRunEnd
    \/ FailDump

Spec == Init /\ [][Next]_vars

(***************************************************************************)
(* plot_robustness: the reader of the two history files.                   *)
(***************************************************************************)
num_of_runs == 5

\* normalized_robustness: each value over the first; dividing by 0.0 raises.
normalized_robustness(data) ==
    IF data = << >> THEN [err |-> NoError, val |-> << >>]
    ELSE IF data[1] = Zero THEN [err |-> "ZeroDivisionError", val |-> << >>]
    ELSE [err |-> NoError, val |-> [i \in 1..Len(data) |-> FracDiv(data[i], data[1])]]

floats(line) == [i \in 1..Len(line) |-> float(line[i])]

\* [float(val) for line in attack_file for val in line.split()]: the values
\* of all the lines, in one list.
RECURSIVE attack_values(_)
attack_values(lines) ==
    IF lines = << >> THEN << >>
    ELSE floats(Head(lines)) \o attack_values(Tail(lines))

\* The loop over range(num_of_runs): next(fail_file) twice per run; then
\* float() of each piece of line[:-1].split(' '), which is [''] for an empty
\* line; then the run's series normalized.
RECURSIVE read_fail_runs(_, _, _)
read_fail_runs(lines, r, fail_history) ==
    IF r >= num_of_runs THEN [err |-> NoError, val |-> fail_history]
    ELSE IF 2 * r + 2 > Len(lines) THEN [err |-> "StopIteration", val |-> fail_history]
    ELSE IF lines[2 * r + 2] = << >> THEN [err |-> "ValueError", val |-> fail_history]
    ELSE LET n == normalized_robustness(floats(lines[2 * r + 2]))
         IN  IF n.err # NoError
             THEN [err |-> n.err, val |-> Append(fail_history, floats(lines[2 * r + 2]))]
             ELSE read_fail_runs(lines, r + 1, Append(fail_history, n.val))

\* The series plot_robustness holds after reading: attack is the list of
\* series it made of the attack file (one), fail the list of runs it read.
plot_robustness(afile, ffile) ==
    IF ~afile.exists
    THEN [err |-> "FileNotFoundError", attack |-> << >>, fail |-> << >>]
    ELSE LET a == normalized_robustness(attack_values(afile.lines))
         IN  IF a.err # NoError
             THEN [err |-> a.err, attack |-> << >>, fail |-> << >>]
             ELSE IF ~ffile.exists
             THEN [err |-> "FileNotFoundError", attack |-> <<a.val>>, fail |-> << >>]
             ELSE LET f == read_fail_runs(ffile.lines, 0, << >>)
                  IN  [err |-> f.err, attack |-> <<a.val>>, fail |-> f.val]

(***************************************************************************)
(* SpecIO: dump_history called in each mode on drawn histories, then       *)
(* plot_robustness.                                                        *)
(***************************************************************************)
IoInts == 0..MaxSeries

IoFloats == {Frac(k, 2) : k \in 0..1}

InitIO ==
    /\ orig = [nodes |-> << >>, edges |-> {}]
    /\ heap = [r \in {SrcRef} |-> orig]
    /\ Idle

IoDumpAttack ==
    /\ pc = "idle"
    /\ ~attack_file.exists
    /\ ~fail_file.exists
    /\ \E len \in 0..MaxSeries :
       \E d \in [1..len -> IoInts], p \in [1..len -> IoFloats], f \in [1..len -> IoFloats] :
          /\ attack_file' = [exists |-> TRUE, lines |-> dump_history(d, p, f, FALSE)]
          /\ dumped' = [dumped EXCEPT !.attack =
                           [diameters |-> d, paths |-> p, ga_fractions |-> f]]
    /\ UNCHANGED <<heap, graph, orig, pc, call, nodes_to_remove, measure_frequency,
                   number_of_runs, iteration, run, diameters_history,
                   path_len_history, ga_fraction_history, ga_on_run, error,
                   fail_file, plotted, ret>>

IoDumpFail ==
    /\ pc = "idle"
    /\ ~fail_file.exists
    /\ \E runs \in 0..num_of_runs, len \in 0..MaxSeries :
       \E f \in [1..runs -> [1..len -> IoFloats]] :
          LET none == [r \in 1..runs |-> << >>]
          IN  /\ fail_file' = [exists |-> TRUE, lines |-> dump_history(none, none, f, TRUE)]
              /\ dumped' = [dumped EXCEPT !.fail =
                               [diameters |-> none, paths |-> none, ga_fractions |-> f]]
    /\ UNCHANGED <<heap, graph, orig, pc, call, nodes_to_remove, measure_frequency,
                   number_of_runs, iteration, run, diameters_history,
                   path_len_history, ga_fraction_history, ga_on_run, error,
                   attack_file, plotted, ret>>

Plot ==
    /\ pc = "idle"
    /\ LET r == plot_robustness(attack_file, fail_file)
       IN  /\ plotted' = [attack |-> r.attack, fail |-> r.fail]
           /\ error' = IF r.err = NoError THEN NotRaised ELSE Raised(r.err, "plot_robustness")
           /\ pc' = IF r.err = NoError THEN "returned" ELSE "raised"
    /\ call' = "plot_robustness"
    /\ UNCHANGED <<heap, graph, orig, nodes_to_remove, measure_frequency,
                   number_of_runs, iteration, run, diameters_history,
                   path_len_history, ga_fraction_history, ga_on_run, dumped,
                   attack_file, fail_file, ret>>

NextIO == IoDumpAttack \/ IoDumpFail \/ Plot

SpecIO == InitIO /\ [][NextIO]_vars

(***************************************************************************)
(* Graph notions the claims are stated with, defined apart from the        *)
(* breadth-first search of the program.                                    *)
(***************************************************************************)
\* The least set holding S and closed under adjacency.
RECURSIVE Closure(_, _)
Closure(g, S) ==
    LET T == S \cup UNION {Neighbors(g, v) : v \in S}
    IN  IF T = S THEN S ELSE Closure(g, T)

ComponentOf(g, u) == Closure(g, {u})

Components(g) == {ComponentOf(g, u) : u \in NodeSet(g)}

EdgesIn(g, C) == Cardinality({e \in g.edges : e \subseteq C})

Position(g, n) == CHOOSE i \in 1..Len(g.nodes) : g.nodes[i] = n

\* The place in the enumeration of the earliest node of C.
FirstPosition(g, C) ==
    CHOOSE i \in {Position(g, n) : n \in C} : \A m \in C : i <= Position(g, m)

\* Whether a walk of exactly k edges leads from u to v.
RECURSIVE Walk(_, _, _, _)
Walk(g, u, v, k) ==
    IF k = 0 THEN u = v
    ELSE \E w \in Neighbors(g, u) : Walk(g, w, v, k - 1)

\* The distance from u to v, for v in the component of u.
Dist(g, u, v) == CHOOSE k \in 0..order(g) : Walk(g, u, v, k) /\ \A j \in 0..(k - 1) : ~Walk(g, u, v, j)

ReachablePairs(g) == {p \in NodeSet(g) \X NodeSet(g) : p[2] \in ComponentOf(g, p[1])}

RECURSIVE SumDist(_, _)
SumDist(g, P) ==
    IF P = {} THEN 0
    ELSE LET p == CHOOSE q \in P : TRUE IN Dist(g, p[1], p[2]) + SumDist(g, P \ {p})

PathGraph3 == [nodes |-> <<1, 2, 3>>, edges |-> {{1, 2}, {2, 3}}]

\* Components of 3 nodes / 2 edges and of 2 nodes / 1 edge.
TwoPartExample == DisjointUnion(PathGraph3, [nodes |-> <<1, 2>>, edges |-> {{1, 2}}])

(***************************************************************************)
(* Claims on the metrics (SpecFn).                                         *)
(***************************************************************************)
GiantReturned == ret.fn = "giant_component_fraction" /\ order(orig) >= 1

\* C2 (as stated): for every graph with at least one node,
\* giant_component_fraction returns (edge count of the connected component
\* that has the most edges) / (node count of the whole graph).
C2_FractionOfMostEdges ==
    GiantReturned =>
        /\ ret.err = NoError
        /\ ret.fraction = Frac(MaxOf({EdgesIn(orig, C) : C \in Components(orig)}), order(orig))

\* C2 (amended): for every graph with at least one node,
\* giant_component_fraction returns (edge count of the connected component
\* that has the most nodes, the earliest in the enumeration among those) /
\* (node count of the whole graph); components of 3 nodes / 2 edges and
\* 2 nodes / 1 edge give 2/5.
C2_FractionOfMostNodesFirst ==
    GiantReturned =>
        /\ ret.err = NoError
        /\ \E C \in Components(orig) :
              /\ \A D \in Components(orig) :
                    /\ Cardinality(D) <= Cardinality(C)
                    /\ Cardinality(D) = Cardinality(C)
                          => FirstPosition(orig, C) <= FirstPosition(orig, D)
              /\ ret.fraction = Frac(EdgesIn(orig, C), order(orig))
        /\ orig = TwoPartExample => ret.fraction = <<2, 5>>

\* C2 witness: two components of the most nodes, the earlier one with fewer
\* edges, and the fraction returned is the earlier one's.
C2_Witness ==
    /\ GiantReturned
    /\ \E C, D \in Components(orig) :
          /\ \A E \in Components(orig) : Cardinality(E) <= Cardinality(C)
          /\ Cardinality(C) = Cardinality(D)
          /\ FirstPosition(orig, C) < FirstPosition(orig, D)
          /\ EdgesIn(orig, C) < EdgesIn(orig, D)
          /\ ret.fraction = Frac(EdgesIn(orig, C), order(orig))

DiameterReturned == ret.fn = "diameter_and_avg_path_length"

\* C6: for every graph with N nodes, connected or not,
\* diameter_and_avg_path_length returns the maximum distance over the pairs
\* of mutually reachable nodes and (the sum of the distances over the ordered
\* pairs of mutually reachable nodes) / (N * (N - 1)); with N <= 1 it returns
\* diameter 0 and average 0.0 without raising.
C6_DiameterAndAverage ==
    DiameterReturned =>
        LET N == order(orig)
            P == ReachablePairs(orig)
        IN  /\ ret.err = NoError
            /\ ret.diameter = MaxOf({Dist(orig, p[1], p[2]) : p \in P} \cup {0})
            /\ ret.avg = IF N <= 1 THEN Zero
                             ELSE Frac(SumDist(orig, P), N * (N - 1))

\* C6 witness: a disconnected graph with a distance of 2 in it, measured.
C6_Witness ==
    /\ DiameterReturned
    /\ Cardinality(Components(orig)) >= 2
    /\ ret.diameter >= 2
    /\ ret.avg # Zero

PathGraphMeasured ==
    DiameterReturned /\ NodeSet(orig) = {1, 2, 3} /\ orig.edges = PathGraph3.edges

\* C7 (as stated): on the path graph with edges 1-2 and 2-3 the diameter is
\* 2 and the average path length 4/6.
C7_PathGraphFourSixths ==
    PathGraphMeasured => ret.diameter = 2 /\ ret.avg = Frac(4, 6)

\* C7 (amended): on the path graph with edges 1-2 and 2-3 the diameter is 2
\* and the average path length 8/6: the six ordered pairs are at distances
\* 1, 1, 1, 1, 2, 2.
C7_PathGraphEightSixths ==
    PathGraphMeasured => ret.diameter = 2 /\ ret.avg = Frac(8, 6)

\* C7 witness: the path graph, measured.
C7_Witness == DiameterReturned /\ orig = PathGraph3 /\ ret.diameter = 2

(***************************************************************************)
(* Claims on the drivers (Spec).                                           *)
(***************************************************************************)
InAttack == call = "robustness_by_attack"

InFail == call = "robustness_by_fail"

CeilDiv(a, b) == (a + b - 1) \div b

\* The graph after k calls of attack_degree.
RECURSIVE AttackedTimes(_, _)
AttackedTimes(g, k) ==
    IF k = 0 THEN g ELSE AttackedTimes(remove_node(g, max_keys_first(g)), k - 1)

\* C1 (as stated): with nodes_to_remove greater than the node count,
\* robustness_by_attack raises nothing, and returns with histories shorter
\* than ceil(nodes_to_remove / measure_frequency).
C1_AttackBeyondOrderReturns ==
    (InAttack /\ order(orig) >= 2 /\ nodes_to_remove > order(orig)) =>
        /\ error = NotRaised
        /\ pc = "returned" =>
              Len(ga_fraction_history) < CeilDiv(nodes_to_remove, measure_frequency)

\* A sampled iteration has just removed the last node: either its
\* measurement raised, or it was appended and the loop went on.
SampledOnEmptied ==
    /\ InAttack \/ InFail
    /\ order(orig) > 0
    /\ order(heap[graph]) = 0
    /\ \/ error.at = "giant_component_fraction"
       \/ /\ error = NotRaised
          /\ iteration = order(orig)
          /\ sampled(iteration - 1, measure_frequency)

\* C3 (as stated): when a sampled iteration removes the last node,
\* giant_component_fraction raises nothing and the fraction recorded is 0.0.
C3_EmptyGraphFractionIsZero ==
    SampledOnEmptied =>
        /\ error = NotRaised
        /\ LET series == IF InAttack THEN ga_fraction_history ELSE ga_on_run
           IN  series # << >> /\ series[Len(series)] = Zero

\* C4: the graph the caller passed keeps its nodes and edges through every
\* step of both drivers, and every failure-mode run starts from it.
C4_SourceGraphUnchanged ==
    /\ heap[SrcRef] = orig
    /\ (pc = "fail_loop" /\ iteration = 0) => heap[graph] = orig

\* C4 witness: the second run of a failure-mode call starts, after a first
\* run that removed two nodes.
C4_Witness ==
    /\ pc = "fail_loop"
    /\ run = 1
    /\ iteration = 0
    /\ nodes_to_remove >= 2
    /\ order(orig) >= 2
    /\ Len(ga_fraction_history) = 1

\* C5: each call of attack_degree in the attack loop on a non-empty graph
\* yields the graph without one node and without that node's edges, the
\* other nodes in their order; the node has the maximum degree and comes
\* first in the enumeration among those that have it; after k calls N - k
\* nodes remain.
C5_RemovesFirstOfMaxDegree ==
    [][(pc = "attack_loop" /\ order(heap[graph]) > 0) =>
          LET G == heap[graph]
              R == heap'[graph']
          IN  /\ \E n \in NodeSet(G) :
                    /\ NodeSet(R) = NodeSet(G) \ {n}
                    /\ \A i, j \in 1..Len(R.nodes) :
                          i < j => Position(G, R.nodes[i]) < Position(G, R.nodes[j])
                    /\ R.edges = {e \in G.edges : n \notin e}
                    /\ \A m \in NodeSet(G) :
                          /\ degree(G, m) <= degree(G, n)
                          /\ Position(G, m) < Position(G, n) => degree(G, m) < degree(G, n)
              /\ order(R) = order(orig) - (iteration + 1)]_vars

\* C5 witness: two calls made on a graph enumerated from its highest id,
\* whose first node ties for the maximum degree with a node of lower id and
\* was the one removed.
C5_Witness ==
    /\ InAttack
    /\ iteration = 2
    /\ order(orig) >= 3
    /\ orig.nodes[1] > orig.nodes[2]
    /\ degree(orig, orig.nodes[1]) = degree(orig, orig.nodes[2])
    /\ \A m \in NodeSet(orig) : degree(orig, m) <= degree(orig, orig.nodes[1])
    /\ orig.nodes[1] \notin NodeSet(heap[graph])
    /\ order(heap[graph]) = order(orig) - 2

\* C9 (as stated): an error raised inside a failure-mode run does not end
\* robustness_by_fail.
C9_FailRunErrorCaught == (InFail /\ order(orig) >= 2) => pc # "raised"

\* C10: in robustness_by_attack with nodes_to_remove <= N - 1 nothing is
\* raised, each iteration removes one node, the three histories have the
\* same length at every step, ceil(i / measure_frequency) after i iterations
\* and so ceil(nodes_to_remove / measure_frequency) at the end, and entry j
\* (from 0) is the measurement of the graph after j * measure_frequency + 1
\* removals.
C10_AttackSampling ==
    (InAttack /\ nodes_to_remove <= order(orig) - 1) =>
        /\ error = NotRaised
        /\ order(heap[graph]) = order(orig) - iteration
        /\ Len(diameters_history) = CeilDiv(iteration, measure_frequency)
        /\ Len(path_len_history) = Len(diameters_history)
        /\ Len(ga_fraction_history) = Len(diameters_history)
        /\ pc \in {"attack_dump", "returned"} => iteration = nodes_to_remove
        /\ \A j \in 1..Len(diameters_history) :
              LET g == AttackedTimes(orig, (j - 1) * measure_frequency + 1)
                  m == diameter_and_avg_path_length(g)
              IN  /\ diameters_history[j] = m.diameter
                  /\ path_len_history[j] = m.avg
                  /\ ga_fraction_history[j] = giant_component_fraction(g).val

\* C10 witness: a run of two iterations sampled every second one has
\* returned with one entry in each history.
C10_Witness ==
    /\ InAttack
    /\ pc = "returned"
    /\ nodes_to_remove = 2
    /\ measure_frequency = 2
    /\ order(orig) >= 3
    /\ size(orig) >= 2
    /\ Len(diameters_history) = 1
    /\ Len(ga_fraction_history) = 1

(***************************************************************************)
(* Claim on the history files (SpecIO).                                    *)
(***************************************************************************)
Normalized(series) == normalized_robustness(series).val

IntsAsFloats(series) == [i \in 1..Len(series) |-> Frac(series[i], 1)]

\* A series that can be divided by its first element.
Divisible(series) == series # << >> /\ series[1] # Zero

\* Both files were written, the failure file with at least one run, every
\* series in them is divisible by its first element, and plot_robustness has
\* read them.
ReadBack ==
    /\ call = "plot_robustness"
    /\ attack_file.exists
    /\ fail_file.exists
    /\ Divisible(IntsAsFloats(dumped.attack.diameters))
    /\ Divisible(dumped.attack.paths)
    /\ Divisible(dumped.attack.ga_fractions)
    /\ dumped.fail.ga_fractions # << >>
    /\ \A r \in 1..Len(dumped.fail.ga_fractions) : Divisible(dumped.fail.ga_fractions[r])

\* C8 (as stated): what plot_robustness reads back is what dump_history
\* wrote, each series divided by its own first element: the three attack
\* series apart and in order, and the runs of the failure file, which has
\* two lines per run, all of them and no more.
C8_ReadsBackWhatWasDumped ==
    ReadBack =>
        /\ error = NotRaised
        /\ plotted.attack = <<Normalized(IntsAsFloats(dumped.attack.diameters)),
                              Normalized(dumped.attack.paths),
                              Normalized(dumped.attack.ga_fractions)>>
        /\ Len(fail_file.lines) = 2 * Len(dumped.fail.ga_fractions)
        /\ plotted.fail = [r \in 1..Len(dumped.fail.ga_fractions) |->
                              Normalized(dumped.fail.ga_fractions[r])]

====
